---- MODULE Spec2Model ----
(***************************************************************************)
(* hero_core: the storage layer declared by database/models.               *)
(*                                                                         *)
(* The repository holds the table declarations (SQLAlchemy models), the    *)
(* configuration tables and the database set-up script.  It holds no       *)
(* ingestion code: no submit, flush, endSession, buffer, retry loop,       *)
(* calibration fit, gaze predictor or lifecycle state machine is defined   *)
(* in any source file.  The collectors and the gaze system are named only  *)
(* in docstrings ("Written in batches by MPU6050Collector", "written by    *)
(* GazeSystem._save_calibration()").                                       *)
(*                                                                         *)
(* The model below is therefore the storage as the declarations constrain  *)
(* it: a row operation is an action, guarded by the constraints the        *)
(* columns declare (primary_key, unique, nullable, ForeignKey with         *)
(* ondelete='CASCADE').  A rejected statement leaves the storage as it     *)
(* was, so it is a stuttering step and needs no action of its own.         *)
(*                                                                         *)
(* database/setup_database.py is modelled step by step: main,              *)
(* create_database, setup_database and run_sql_file, with the outcome of   *)
(* each call on the server (connect, execute, commit, rollback) chosen     *)
(* nondeterministically.                                                   *)
(***************************************************************************)
EXTENDS Naturals, FiniteSets, Sequences

\* ------------------------------------------------------------------ bounds

\* session identifiers (uuid4 values in the code)
Sessions == {"s1", "s2"}

\* timestamps are 1..MaxTime
MaxTime == 1

\* at most MaxRows rows are stored in the sensor tables and
\* metrics_processed together
MaxRows == 3

\* calibration_id values (uuid4 values in the code) are 1..MaxCalibrationId
MaxCalibrationId == 2

\* the schema directory holds at most MaxFiles *.sql files, named 1..MaxFiles
\* in ascending filename order
MaxFiles == 3

\* the set-up script is run at most MaxRuns times
MaxRuns == 2

Times == 1..MaxTime

SchemaFileNames == 1..MaxFiles

CalibrationIds == 1..MaxCalibrationId

\* ------------------------------------------------------- declared tables

\* __tablename__ of the six raw sensor hypertables
SensorTables ==
    {"sensor_accelerometer", "sensor_gyroscope", "sensor_eeg",
     "sensor_eye_tracking", "sensor_heart_rate", "sensor_oximeter"}

\* values of the metric_type column the docstring gives as examples
MetricTypes == {"tremor_hz", "heart_rate_bpm"}

\* a nullable column that holds no value
NULL == "NULL"

\* the values the validation_rating column is documented to take
Ratings == {"GOOD", "ACCEPTABLE", "POOR"}

\* the fitted coefficients of a calibration row (coeff_x, coeff_y,
\* intercept_x, intercept_y), as one opaque value
Coefficients == {"fitA", "fitB"}

\* the users sessions are created for
Users == {"u1", "u2"}

\* the one user of the specifications in which participants play no part
OneUser == {"u1"}

\* the cohort stubs of anon_demographics
AnonIds == {"a1", "a2"}

\* the instants a DateTime column of test_sessions is set at
Instants == {"t1", "t2"}

VARIABLES
    test_sessions,             \* session_id of every row of test_sessions
    sensor_rows,               \* rows of the six sensor tables
    calibration_eye_tracking,  \* rows of calibration_eye_tracking
    metrics_processed,         \* rows of metrics_processed
    session_columns, \* session_id -> the other columns of its test_sessions row
    pc,              \* where the set-up script is
    runs,            \* how many times main has been started
    db_exists,       \* pg_database holds a row for db_name
    create_count,    \* CREATE DATABASE statements executed
    create_msg,      \* what create_database printed last
    create_result,   \* what create_database returned
    glob_files,      \* schema_dir.glob('*.sql'), in the order it yields
    schema_files,    \* sorted(schema_dir.glob('*.sql'))
    file_index,      \* position of the loop in schema_files
    executed,        \* files handed to cursor.execute, in order
    committed,       \* files whose transaction was committed, in order
    pending,         \* files whose changes sit in the open transaction
    conn,            \* the connection of setup_database
    setup_result,    \* what setup_database returned
    ready,           \* main printed that the database is ready
    exit_status      \* the status the script exited with

storage_vars == <<test_sessions, sensor_rows, calibration_eye_tracking,
                  metrics_processed, session_columns>>

setup_vars == <<pc, runs, db_exists, create_count, create_msg, create_result,
                glob_files, schema_files, file_index, executed, committed,
                pending, conn, setup_result, ready, exit_status>>

vars == <<storage_vars, setup_vars>>

\* a row of a sensor table: the composite primary key and the validity flag
SensorRow(table, time, session_id, is_valid) ==
    [table |-> table, time |-> time, session_id |-> session_id,
     is_valid |-> is_valid]

\* the primary key of a sensor row within its table: (time, session_id)
SensorKey(r) == <<r.table, r.time, r.session_id>>

\* a row of metrics_processed: the composite primary key and the validity
\* flag
MetricRow(time, session_id, metric_type, is_valid) ==
    [time |-> time, session_id |-> session_id, metric_type |-> metric_type,
     is_valid |-> is_valid]

\* the primary key of a metrics row: (time, session_id, metric_type)
MetricKey(m) == <<m.time, m.session_id, m.metric_type>>

\* the number of stored sensor and metric rows
StoredRows == Cardinality(sensor_rows) + Cardinality(metrics_processed)

\* a row of calibration_eye_tracking
CalibrationRow(calibration_id, session_id, coeff, rating) ==
    [calibration_id |-> calibration_id, session_id |-> session_id,
     coeff |-> coeff, validation_rating |-> rating]

TypeOK ==
    /\ test_sessions \subseteq Sessions
    /\ sensor_rows \subseteq
         [table : SensorTables, time : Times, session_id : Sessions,
          is_valid : BOOLEAN]
    /\ calibration_eye_tracking \subseteq
         [calibration_id : CalibrationIds, session_id : Sessions,
          coeff : Coefficients, validation_rating : Ratings \cup {NULL}]
    /\ metrics_processed \subseteq
         [time : Times, session_id : Sessions, metric_type : MetricTypes,
          is_valid : BOOLEAN]
    /\ session_columns \in
         [test_sessions ->
            [user_id : Users \cup {NULL}, anon_id : AnonIds \cup {NULL},
             anonymised_at : Instants \cup {NULL},
             ended_at : Instants \cup {NULL}]]
    /\ pc \in {"idle", "create_database", "setup_database", "run_sql_file",
               "commit", "done", "exited"}
    /\ runs \in 0..MaxRuns
    /\ db_exists \in BOOLEAN
    /\ create_count \in 0..MaxRuns
    /\ create_msg \in {NULL, "created", "already exists", "error"}
    /\ create_result \in {NULL, "True", "False"}
    /\ glob_files \in Seq(SchemaFileNames)
    /\ schema_files \in Seq(SchemaFileNames)
    /\ file_index \in 0..MaxFiles
    /\ executed \in Seq(SchemaFileNames)
    /\ committed \in Seq(SchemaFileNames)
    /\ pending \subseteq SchemaFileNames
    /\ conn \in {"none", "open", "closed"}
    /\ setup_result \in {NULL, "True", "False"}
    /\ ready \in BOOLEAN
    /\ exit_status \in {NULL, "0", "1"}

Init ==
    /\ test_sessions = {}
    /\ sensor_rows = {}
    /\ calibration_eye_tracking = {}
    /\ metrics_processed = {}
    /\ session_columns = << >>
    /\ pc = "idle"
    /\ runs = 0
    /\ db_exists = FALSE
    /\ create_count = 0
    /\ create_msg = NULL
    /\ create_result = NULL
    /\ glob_files = << >>
    /\ schema_files = << >>
    /\ file_index = 0
    /\ executed = << >>
    /\ committed = << >>
    /\ pending = {}
    /\ conn = "none"
    /\ setup_result = NULL
    /\ ready = FALSE
    /\ exit_status = NULL

\* ---------------------------------------------------------- test_sessions

\* the columns of a test_sessions row beside its key
SessionRow(user_id, anon_id, anonymised_at, ended_at) ==
    [user_id |-> user_id, anon_id |-> anon_id,
     anonymised_at |-> anonymised_at, ended_at |-> ended_at]

\* the CHECK constraint of test_sessions that the class docstring names: one
\* of the two participant links is set and the other is NULL
participant_link_exclusive(row) ==
    (row.user_id # NULL) # (row.anon_id # NULL)

\* TestSession.is_anonymised with the test turned round
is_anonymisedInverted(row) == row.anonymised_at = NULL

\* TestSession.is_anonymised
is_anonymised(row) == row.anonymised_at # NULL

\* INSERT INTO test_sessions at login: session_id is the primary key, the
\* session is linked to the user and every other nullable column is NULL
InsertSession(s, u) ==
    /\ s \notin test_sessions
    /\ participant_link_exclusive(SessionRow(u, NULL, NULL, NULL))
    /\ test_sessions' = test_sessions \cup {s}
    /\ session_columns' =
         [x \in test_sessions \cup {s} |->
            IF x = s THEN SessionRow(u, NULL, NULL, NULL)
            ELSE session_columns[x]]
    /\ UNCHANGED <<sensor_rows, calibration_eye_tracking, metrics_processed>>
    /\ UNCHANGED setup_vars

\* DELETE FROM test_sessions: every table's session_id column is declared
\* ForeignKey('test_sessions.session_id', ondelete='CASCADE')
DeleteSession(s) ==
    /\ s \in test_sessions
    /\ test_sessions' = test_sessions \ {s}
    /\ session_columns' = [x \in test_sessions \ {s} |-> session_columns[x]]
    /\ sensor_rows' = {r \in sensor_rows : r.session_id # s}
    /\ calibration_eye_tracking' =
         {c \in calibration_eye_tracking : c.session_id # s}
    /\ metrics_processed' = {m \in metrics_processed : m.session_id # s}
    /\ UNCHANGED setup_vars

\* the sessions linked to user u
SessionsOfUser(u) == {s \in test_sessions : session_columns[s].user_id = u}

\* DELETE FROM users: test_sessions.user_id is declared
\* ForeignKey('users.user_id', ondelete='CASCADE'), so the user's sessions go
\* with it, and their rows with them
DeleteUser(u) ==
    /\ SessionsOfUser(u) # {}
    /\ test_sessions' = test_sessions \ SessionsOfUser(u)
    /\ session_columns' =
         [x \in test_sessions \ SessionsOfUser(u) |-> session_columns[x]]
    /\ sensor_rows' = {r \in sensor_rows : r.session_id \notin SessionsOfUser(u)}
    /\ calibration_eye_tracking' =
         {c \in calibration_eye_tracking : c.session_id \notin SessionsOfUser(u)}
    /\ metrics_processed' =
         {m \in metrics_processed : m.session_id \notin SessionsOfUser(u)}
    /\ UNCHANGED setup_vars

\* end_session(), as the docstring of ended_at has it: the row of an active
\* session gets its ended_at
EndSession(s, at) ==
    /\ s \in test_sessions
    /\ session_columns[s].ended_at = NULL
    /\ session_columns' =
         [session_columns EXCEPT ![s] = [@ EXCEPT !.ended_at = at]]
    /\ UNCHANGED <<test_sessions, sensor_rows, calibration_eye_tracking,
                   metrics_processed>>
    /\ UNCHANGED setup_vars

\* anonymise_sessions.py processing a row, as the docstrings of user_id,
\* anon_id and anonymised_at have it: the user link is cleared, the session
\* is re-linked to a cohort stub and the time is recorded
Anonymise(s, anon_id, at) ==
    /\ s \in test_sessions
    /\ session_columns[s].user_id # NULL
    /\ participant_link_exclusive(
         SessionRow(NULL, anon_id, at, session_columns[s].ended_at))
    /\ session_columns' =
         [session_columns EXCEPT
            ![s] = SessionRow(NULL, anon_id, at, session_columns[s].ended_at)]
    /\ UNCHANGED <<test_sessions, sensor_rows, calibration_eye_tracking,
                   metrics_processed>>
    /\ UNCHANGED setup_vars

\* ---------------------------------------------------------- sensor tables

\* InsertSensorRow on a table whose columns declare no primary key: a
\* second row with a stored (time, session_id) is accepted
InsertSensorRowNoKey(table, time, s, is_valid) ==
    /\ StoredRows < MaxRows
    /\ s \in test_sessions
    /\ sensor_rows' = sensor_rows \cup {SensorRow(table, time, s, is_valid)}
    /\ sensor_rows' # sensor_rows
    /\ UNCHANGED <<test_sessions, calibration_eye_tracking, metrics_processed>>
    /\ UNCHANGED setup_vars
    /\ UNCHANGED session_columns

\* INSERT INTO <sensor table>: the foreign key needs the session, the
\* composite primary key (time, session_id) refuses a second row
InsertSensorRow(table, time, s, is_valid) ==
    /\ StoredRows < MaxRows
    /\ s \in test_sessions
    /\ \A r \in sensor_rows : SensorKey(r) # <<table, time, s>>
    /\ sensor_rows' = sensor_rows \cup {SensorRow(table, time, s, is_valid)}
    /\ UNCHANGED <<test_sessions, calibration_eye_tracking, metrics_processed>>
    /\ UNCHANGED setup_vars
    /\ UNCHANGED session_columns

\* UPDATE <sensor table>: a row's time and is_valid are rewritten; the
\* composite primary key refuses the key of another row
UpdateSensorRow(r, time, is_valid) ==
    /\ r \in sensor_rows
    /\ SensorRow(r.table, time, r.session_id, is_valid) # r
    /\ \A q \in sensor_rows \ {r} :
         SensorKey(q) # <<r.table, time, r.session_id>>
    /\ sensor_rows' =
         (sensor_rows \ {r}) \cup
         {SensorRow(r.table, time, r.session_id, is_valid)}
    /\ UNCHANGED <<test_sessions, calibration_eye_tracking, metrics_processed>>
    /\ UNCHANGED setup_vars
    /\ UNCHANGED session_columns

\* ------------------------------------------------------ metrics_processed

\* INSERT INTO metrics_processed: the foreign key needs the session, the
\* composite primary key (time, session_id, metric_type) refuses a second
\* row
InsertMetric(time, s, metric_type, is_valid) ==
    /\ StoredRows < MaxRows
    /\ s \in test_sessions
    /\ \A m \in metrics_processed : MetricKey(m) # <<time, s, metric_type>>
    /\ metrics_processed' =
         metrics_processed \cup {MetricRow(time, s, metric_type, is_valid)}
    /\ UNCHANGED <<test_sessions, sensor_rows, calibration_eye_tracking>>
    /\ UNCHANGED setup_vars
    /\ UNCHANGED session_columns

\* ----------------------------------------------- calibration_eye_tracking

\* InsertCalibration on a table whose session_id column is not declared
\* unique: a session that has a row is given a second one
InsertCalibrationNotUnique(id, s, coeff) ==
    /\ s \in test_sessions
    /\ \A c \in calibration_eye_tracking : c.calibration_id # id
    /\ calibration_eye_tracking' =
         calibration_eye_tracking \cup {CalibrationRow(id, s, coeff, NULL)}
    /\ UNCHANGED <<test_sessions, sensor_rows, metrics_processed>>
    /\ UNCHANGED setup_vars
    /\ UNCHANGED session_columns

\* INSERT INTO calibration_eye_tracking: calibration_id is the primary key,
\* session_id is unique and a foreign key, the coefficient columns are
\* nullable=False, the validation columns start empty
InsertCalibration(id, s, coeff) ==
    /\ s \in test_sessions
    /\ \A c \in calibration_eye_tracking :
         c.calibration_id # id /\ c.session_id # s
    /\ calibration_eye_tracking' =
         calibration_eye_tracking \cup {CalibrationRow(id, s, coeff, NULL)}
    /\ UNCHANGED <<test_sessions, sensor_rows, metrics_processed>>
    /\ UNCHANGED setup_vars
    /\ UNCHANGED session_columns

\* UPDATE calibration_eye_tracking SET validation_* : the validation
\* columns are filled in on the session's existing row
UpdateValidation(s, rating) ==
    /\ \E c \in calibration_eye_tracking :
         /\ c.session_id = s
         /\ calibration_eye_tracking' =
              (calibration_eye_tracking \ {c}) \cup
              {[c EXCEPT !.validation_rating = rating]}
    /\ UNCHANGED <<test_sessions, sensor_rows, metrics_processed>>
    /\ UNCHANGED setup_vars
    /\ UNCHANGED session_columns

\* DELETE FROM calibration_eye_tracking WHERE session_id = s
DeleteCalibration(s) ==
    /\ \E c \in calibration_eye_tracking : c.session_id = s
    /\ calibration_eye_tracking' =
         {c \in calibration_eye_tracking : c.session_id # s}
    /\ UNCHANGED <<test_sessions, sensor_rows, metrics_processed>>
    /\ UNCHANGED setup_vars
    /\ UNCHANGED session_columns

\* -------------------------------------------------------------------- spec

\* the statements on test_sessions
(***************************************************************************)
(* database/setup_database.py                                              *)
(***************************************************************************)

\* the orders in which glob can yield the files of a directory holding files
Listings(files) ==
    {q \in [1..Cardinality(files) -> files] :
        \A i, j \in 1..Cardinality(files) : i # j => q[i] # q[j]}

RECURSIVE insort(_, _)
\* seq, ascending, with file put in its place
insort(file, seq) ==
    IF seq = << >> THEN <<file>>
    ELSE IF file <= Head(seq) THEN <<file>> \o seq
    ELSE <<Head(seq)>> \o insort(file, Tail(seq))

RECURSIVE sortedFrom(_, _)
sortedFrom(seq, acc) ==
    IF seq = << >> THEN acc
    ELSE sortedFrom(Tail(seq), insort(Head(seq), acc))

\* the listing left in the order glob yielded it
unsorted(seq) == seq

\* sorted(schema_dir.glob('*.sql')): the files in ascending filename order
sorted(seq) == sortedFrom(seq, << >>)

\* main up to the call of create_database: the script is started; it exits
\* with status 1 when the schema directory does not exist
main ==
    /\ pc \in {"idle", "done", "exited"}
    /\ runs < MaxRuns
    /\ runs' = runs + 1
    /\ create_msg' = NULL
    /\ create_result' = NULL
    /\ glob_files' = << >>
    /\ schema_files' = << >>
    /\ file_index' = 0
    /\ executed' = << >>
    /\ committed' = << >>
    /\ pending' = {}
    /\ conn' = "none"
    /\ setup_result' = NULL
    /\ ready' = FALSE
    /\ \E schema_dir_exists \in BOOLEAN :
          IF schema_dir_exists
          THEN pc' = "create_database" /\ exit_status' = NULL
          ELSE pc' = "exited" /\ exit_status' = "1"
    /\ UNCHANGED <<db_exists, create_count>>
    /\ UNCHANGED storage_vars

\* create_database with the pg_database lookup left out: CREATE DATABASE is
\* executed whether or not the database exists
create_databaseNoLookup ==
    /\ pc = "create_database"
    /\ \E raised \in {"connect", "create", "none"} :
          IF raised = "connect"
          THEN /\ create_msg' = "error"
               /\ create_result' = "False"
               /\ UNCHANGED <<db_exists, create_count>>
          ELSE IF raised = "none"
               THEN /\ db_exists' = TRUE
                    /\ create_count' = create_count + 1
                    /\ create_msg' = "created"
                    /\ create_result' = "True"
               ELSE /\ create_msg' = "error"
                    /\ create_result' = "False"
                    /\ UNCHANGED <<db_exists, create_count>>
    /\ IF create_result' = "True"
       THEN pc' = "setup_database" /\ exit_status' = NULL
       ELSE pc' = "exited" /\ exit_status' = "1"
    /\ UNCHANGED <<runs, glob_files, schema_files, file_index, executed,
                   committed, pending, conn, setup_result, ready>>
    /\ UNCHANGED storage_vars

\* create_database, and main's test of what it returned: the connection to
\* the server or a statement may raise, which returns False; otherwise the
\* database is created when pg_database has no row for it, and True returned
create_database ==
    /\ pc = "create_database"
    /\ \E raised \in {"connect", "create", "none"} :
          IF raised = "connect"
          THEN /\ create_msg' = "error"
               /\ create_result' = "False"
               /\ UNCHANGED <<db_exists, create_count>>
          ELSE IF db_exists
               THEN /\ create_msg' = "already exists"
                    /\ create_result' = "True"
                    /\ UNCHANGED <<db_exists, create_count>>
               ELSE IF raised = "none"
                    THEN /\ db_exists' = TRUE
                         /\ create_count' = create_count + 1
                         /\ create_msg' = "created"
                         /\ create_result' = "True"
                    ELSE /\ create_msg' = "error"
                         /\ create_result' = "False"
                         /\ UNCHANGED <<db_exists, create_count>>
    /\ IF create_result' = "True"
       THEN pc' = "setup_database" /\ exit_status' = NULL
       ELSE pc' = "exited" /\ exit_status' = "1"
    /\ UNCHANGED <<runs, glob_files, schema_files, file_index, executed,
                   committed, pending, conn, setup_result, ready>>
    /\ UNCHANGED storage_vars

\* setup_database returns result to main, which exits with status 1 on
\* False and reports the database ready on True
Return(result) ==
    /\ setup_result' = result
    /\ IF result = "True"
       THEN pc' = "done" /\ ready' = TRUE /\ exit_status' = "0"
       ELSE pc' = "exited" /\ ready' = FALSE /\ exit_status' = "1"

\* setup_database up to its loop: connect, list the schema files, sort them
setup_database ==
    /\ pc = "setup_database"
    /\ \/ /\ conn' = "none"              \* connect raised
          /\ Return("False")
          /\ UNCHANGED <<glob_files, schema_files, file_index>>
       \/ \E files \in SUBSET SchemaFileNames : \E listing \in Listings(files) :
             /\ conn' = "open"
             /\ glob_files' = listing
             /\ schema_files' = sorted(listing)
             /\ IF schema_files' = << >>
                THEN Return("False") /\ file_index' = 0
                ELSE /\ pc' = "run_sql_file"
                     /\ file_index' = 1
                     /\ UNCHANGED <<setup_result, ready, exit_status>>
    /\ UNCHANGED <<runs, db_exists, create_count, create_msg, create_result,
                   executed, committed, pending>>
    /\ UNCHANGED storage_vars

\* run_sql_file up to conn.commit(): the file is read and executed; on an
\* exception the transaction is rolled back, the loop breaks, the
\* connection is closed and False returned; an exception of the rollback
\* itself is caught by setup_database, which returns False
run_sql_file ==
    /\ pc = "run_sql_file"
    /\ \E raised \in {"read", "execute", "execute and rollback", "none"} :
          /\ executed' = IF raised = "read" THEN executed
                         ELSE Append(executed, schema_files[file_index])
          /\ IF raised = "none"
             THEN /\ pending' = {schema_files[file_index]}
                  /\ pc' = "commit"
                  /\ UNCHANGED <<conn, setup_result, ready, exit_status>>
             ELSE /\ pending' = {}
                  /\ conn' = IF raised = "execute and rollback" THEN "open"
                             ELSE "closed"
                  /\ Return("False")
    /\ UNCHANGED <<runs, db_exists, create_count, create_msg, create_result,
                   glob_files, schema_files, file_index, committed>>
    /\ UNCHANGED storage_vars

\* conn.commit() of run_sql_file and the rest of the loop body: the next
\* file follows a commit; after the last one the connection is closed and
\* True returned
run_sql_file_commit ==
    /\ pc = "commit"
    /\ pending' = {}
    /\ \E raised \in {"commit", "commit and rollback", "none"} :
          IF raised = "none"
          THEN /\ committed' = Append(committed, schema_files[file_index])
               /\ IF file_index < Len(schema_files)
                  THEN /\ file_index' = file_index + 1
                       /\ pc' = "run_sql_file"
                       /\ UNCHANGED <<conn, setup_result, ready, exit_status>>
                  ELSE /\ conn' = "closed"
                       /\ Return("True")
                       /\ UNCHANGED file_index
          ELSE /\ conn' = IF raised = "commit and rollback" THEN "open"
                          ELSE "closed"
               /\ Return("False")
               /\ UNCHANGED <<committed, file_index>>
    /\ UNCHANGED <<runs, db_exists, create_count, create_msg, create_result,
                   glob_files, schema_files, executed>>
    /\ UNCHANGED storage_vars

SetupNext ==
    \/ main
    \/ create_database
    \/ setup_database
    \/ run_sql_file
    \/ run_sql_file_commit

SetupSpec == Init /\ [][SetupNext]_vars

\* sessions created for the users of users, and deleted
SessionsOf(users) ==
    \/ \E s \in Sessions, u \in users : InsertSession(s, u)
    \/ \E s \in Sessions : DeleteSession(s)

SessionNext == SessionsOf(OneUser)

\* the statements on the participant link and the end of a session
ParticipantNext ==
    \/ \E u \in Users : DeleteUser(u)
    \/ \E s \in Sessions, at \in Instants : EndSession(s, at)
    \/ \E s \in Sessions, anon_id \in AnonIds, at \in Instants :
          Anonymise(s, anon_id, at)

\* the statements on the sensor tables and metrics_processed
SensorNext ==
    \/ \E table \in SensorTables, time \in Times, s \in Sessions,
          is_valid \in BOOLEAN : InsertSensorRow(table, time, s, is_valid)
    \/ \E r \in sensor_rows, time \in Times, is_valid \in BOOLEAN :
          UpdateSensorRow(r, time, is_valid)
    \/ \E time \in Times, s \in Sessions, metric_type \in MetricTypes,
          is_valid \in BOOLEAN : InsertMetric(time, s, metric_type, is_valid)

\* the statements on calibration_eye_tracking
CalibrationNext ==
    \/ \E id \in CalibrationIds, s \in Sessions, coeff \in Coefficients :
          InsertCalibration(id, s, coeff)
    \/ \E s \in Sessions, rating \in Ratings : UpdateValidation(s, rating)
    \/ \E s \in Sessions : DeleteCalibration(s)

\* the sessions with their sensor and metric rows
SensorSpec == Init /\ [][SessionNext \/ SensorNext]_vars

\* the sessions with their calibration rows
CalibrationSpec == Init /\ [][SessionNext \/ CalibrationNext]_vars

\* the sessions with their participant links
ParticipantSpec == Init /\ [][SessionsOf(Users) \/ ParticipantNext]_vars

Next ==
    \/ SessionsOf(Users)
    \/ ParticipantNext
    \/ \E table \in SensorTables, time \in Times, s \in Sessions,
          is_valid \in BOOLEAN : InsertSensorRow(table, time, s, is_valid)
    \/ \E r \in sensor_rows, time \in Times, is_valid \in BOOLEAN :
          UpdateSensorRow(r, time, is_valid)
    \/ \E time \in Times, s \in Sessions, metric_type \in MetricTypes,
          is_valid \in BOOLEAN : InsertMetric(time, s, metric_type, is_valid)
    \/ \E id \in CalibrationIds, s \in Sessions, coeff \in Coefficients :
          InsertCalibration(id, s, coeff)
    \/ \E s \in Sessions, rating \in Ratings : UpdateValidation(s, rating)
    \/ \E s \in Sessions : DeleteCalibration(s)
    \/ SetupNext

Spec == Init /\ [][Next]_vars

\* ------------------------------------------------------------------ claims

\* the rows of one sensor table
TableRows(table) == {r \in sensor_rows : r.table = table}

\* C16: in every reachable state of the storage each sensor table holds at
\* most one row per (time, session_id) and metrics_processed at most one
\* row per (time, session_id, metric_type): two stored rows with the same
\* key are the same row.
C16_KeysUnique ==
    /\ \A table \in SensorTables :
         \A r1, r2 \in TableRows(table) :
            (r1.time = r2.time /\ r1.session_id = r2.session_id) => r1 = r2
    /\ \A m1, m2 \in metrics_processed :
         (/\ m1.time = m2.time
          /\ m1.session_id = m2.session_id
          /\ m1.metric_type = m2.metric_type) => m1 = m2

\* C16, the case: rows that share a timestamp are stored side by side, two
\* of different sensor tables in one session and two of one table in
\* different sessions
C16_SharedTimestampStored ==
    \E r1, r2, r3 \in sensor_rows :
        /\ r1.time = r2.time /\ r1.time = r3.time
        /\ r1.table # r2.table /\ r1.session_id = r2.session_id
        /\ r1.table = r3.table /\ r1.session_id # r3.session_id

\* the calibration rows of the sessions other than s
ModelsOfOthers(s) == {c \in calibration_eye_tracking : c.session_id # s}

\* a calibration row of session s is written: inserted with its
\* coefficients, or updated with its validation result
WritesModelOf(s) ==
    \/ \E id \in CalibrationIds, coeff \in Coefficients :
          InsertCalibration(id, s, coeff)
    \/ \E rating \in Ratings : UpdateValidation(s, rating)

\* no session has two stored models, and every stored model belongs to one
\* stored session
OneModelPerSession ==
    /\ \A c1, c2 \in calibration_eye_tracking :
         (c1.session_id = c2.session_id \/ c1.calibration_id = c2.calibration_id)
            => c1 = c2
    /\ \A c \in calibration_eye_tracking : c.session_id \in test_sessions

\* C18: at any time a session has at most one calibration model and a model
\* belongs to exactly one session, after any sequence of inserts, validation
\* updates and deletions on any sessions; and writing the model of one
\* session neither creates nor changes a model of another session.
C18_OneModelPerSession ==
    /\ []OneModelPerSession
    /\ [][\A s \in Sessions :
            WritesModelOf(s) => ModelsOfOthers(s)' = ModelsOfOthers(s)]_vars

\* C18, the case: both sessions hold a model with different coefficients,
\* and one of the two has been validated
C18_TwoSessionsCalibrated ==
    \E c1, c2 \in calibration_eye_tracking :
        /\ c1.session_id # c2.session_id
        /\ c1.coeff # c2.coeff
        /\ c1.validation_rating # NULL
        /\ c2.validation_rating = NULL

\* seq is the first Len(seq) elements of whole
IsPrefix(seq, whole) ==
    /\ Len(seq) <= Len(whole)
    /\ \A i \in 1..Len(seq) : seq[i] = whole[i]

\* the files of seq
Range(seq) == {seq[i] : i \in 1..Len(seq)}

\* seq holds each of its files once, in ascending filename order
Ascending(seq) == \A i, j \in 1..Len(seq) : i < j => seq[i] < seq[j]

\* setup_database has returned
SetupReturned == setup_result # NULL

\* C24: in every reachable state of a run of setup_database, the files
\* handed to the server so far are the first files of the directory's *.sql
\* files in ascending filename order; the committed files are the first of
\* those, at most one file behind; the open transaction holds at most the one
\* file being executed, and holds nothing once the function has returned or
\* the next file is started, so a failing file is never committed and
\* nothing after it is executed; the function returns True exactly when
\* there is at least one file and every file was executed and committed, and
\* False when there are no files or the connection was never opened.
C24_FilesInOrderUntilFirstFailure ==
    /\ Ascending(schema_files)
    /\ Range(schema_files) = Range(glob_files)
    /\ IsPrefix(executed, schema_files)
    /\ IsPrefix(committed, executed)
    /\ Len(executed) <= Len(committed) + 1
    /\ Cardinality(pending) <= 1
    /\ pending # {} =>
          /\ pc = "commit"
          /\ executed = Append(committed, schema_files[file_index])
          /\ pending = {schema_files[file_index]}
    /\ pc = "run_sql_file" =>
          /\ executed = committed
          /\ Len(committed) = file_index - 1
    /\ SetupReturned => pending = {}
    /\ setup_result = "True" <=>
          /\ SetupReturned
          /\ schema_files # << >>
          /\ executed = schema_files
          /\ committed = schema_files
    /\ (SetupReturned /\ (schema_files = << >> \/ conn = "none")) =>
          setup_result = "False"

\* a run that found three files out of order, committed the first, was
\* refused the second and returned False
C24_SecondFileFailed ==
    /\ setup_result = "False"
    /\ glob_files # schema_files
    /\ Len(schema_files) = 3
    /\ committed = <<schema_files[1]>>
    /\ executed = <<schema_files[1], schema_files[2]>>

\* create_database has just been called
CalledCreate == pc = "create_database" /\ pc' # "create_database"

\* C25: CREATE DATABASE is executed only by a create_database that finds no
\* database of that name, and that call returns True; a create_database
\* that reports the database as existing executes no CREATE and returns True;
\* over any number of runs the database is created at most once;
\* setup_database is entered, and has returned, only in a run whose
\* create_database returned True; the database is reported ready only when
\* both returned True, with exit status 0, and every other end of the script
\* is an exit with status 1.
C25_CreateOnceAndGate ==
    /\ [](/\ create_count <= 1
          /\ create_count = 1 => db_exists
          /\ create_result = "True" => db_exists
          /\ create_msg \in {"created", "already exists"} =>
                create_result = "True"
          /\ pc \in {"setup_database", "run_sql_file", "commit"} =>
                create_result = "True"
          /\ SetupReturned => create_result = "True"
          /\ ready <=> (create_result = "True" /\ setup_result = "True")
          /\ ready <=> pc = "done"
          /\ pc = "done" => exit_status = "0"
          /\ pc = "exited" => exit_status = "1"
          /\ exit_status # NULL <=> pc \in {"done", "exited"})
    /\ [][/\ create_count' # create_count =>
               /\ CalledCreate
               /\ ~db_exists
               /\ create_count' = create_count + 1
               /\ create_msg' = "created"
               /\ create_result' = "True"
          /\ (CalledCreate /\ db_exists) =>
               /\ create_count' = create_count
               /\ create_msg' \in {"already exists", "error"}]_vars

\* the second run found the database the first run created, and went on to
\* report the database ready
C25_SecondRunFoundDatabase ==
    /\ runs = 2
    /\ create_count = 1
    /\ create_msg = "already exists"
    /\ ready

====
